---- MODULE Spec2Model ----
(***************************************************************************)
(* A model of src/app.py, the Titanic dashboard: the substring filter of   *)
(* display_basic_info, the title extraction and the captain search of      *)
(* analyze_passenger_names, the sliders and the range filter of            *)
(* create_scatter_plots, and the load-and-dispatch flow of main.           *)
(*                                                                         *)
(* A text is a sequence of one-character strings.  A cell of the table is  *)
(* an option: <<>> is a null, <<v>> holds the value v.  Age and Fare are    *)
(* floats in the program; here they are integers counting 1/Unit, so that  *)
(* int() truncation and the 1.0 step of the fare slider keep their effect. *)
(***************************************************************************)
EXTENDS Integers, Sequences, FiniteSets, TLC

VARIABLES df, app, overview, names, scatter

vars == <<df, app, overview, names, scatter>>

-----------------------------------------------------------------------------
(* Bounds of the model *)

MaxRows == 2

MaxNameLen == 6

Unit == 2

-----------------------------------------------------------------------------
(* Cells *)

None == <<>>

Some(v) == <<v>>

IsNull(c) == c = None

Val(c) == c[1]

-----------------------------------------------------------------------------
(* Texts and the string functions of the dataframe library *)

RECURSIVE SeqsUpTo(_, _)
SeqsUpTo(S, n) ==
    IF n = 0 THEN {<<>>}
    ELSE LET shorter == SeqsUpTo(S, n - 1)
         IN  shorter \cup {Append(s, c) : s \in shorter, c \in S}

OccursAt(s, p, i) ==
    /\ i >= 1
    /\ i + Len(p) - 1 <= Len(s)
    /\ \A k \in 1..Len(p) : s[i + k - 1] = p[k]

\* the index of the leftmost occurrence of p in s, 0 when there is none
FirstIndex(s, p) ==
    LET hits == {i \in 1..Len(s) : OccursAt(s, p, i)}
    IN  IF hits = {} THEN 0 ELSE CHOOSE i \in hits : \A j \in hits : i <= j

\* faulty variant: the split stops after the first separator, as splitn(sep, 2) does
StrSplitFirstOnly(s, sep) ==
    LET i == FirstIndex(s, sep)
    IN  IF i = 0 THEN <<s>>
        ELSE <<SubSeq(s, 1, i - 1), SubSeq(s, i + Len(sep), Len(s))>>

\* Series.str.split(sep): cut at every occurrence of sep, left to right
RECURSIVE StrSplitAll(_, _)
StrSplitAll(s, sep) ==
    LET i == FirstIndex(s, sep)
    IN  IF i = 0 THEN <<s>>
        ELSE <<SubSeq(s, 1, i - 1)>>
                 \o StrSplitAll(SubSeq(s, i + Len(sep), Len(s)), sep)

StrSplit(s, sep) == StrSplitAll(s, sep)

\* faulty variant: the reversal is left out
ListKeepOrder(l) == l

\* Series.list.reverse()
ListReverse(l) == [i \in 1..Len(l) |-> l[Len(l) + 1 - i]]

\* Series.list.join(sep)
RECURSIVE ListJoin(_, _)
ListJoin(l, sep) ==
    IF Len(l) = 0 THEN <<>>
    ELSE IF Len(l) = 1 THEN l[1]
    ELSE l[1] \o sep \o ListJoin(Tail(l), sep)

\* Series.list.get(0)
ListGetFirst(l) == l[1]

\* Series.str.contains(p, literal=True)
StrContainsLiteral(s, p) == \E i \in 1..(Len(s) + 1) : OccursAt(s, p, i)

\* one pattern character of a regular expression made of literals and "."
RegexCharMatches(pc, c) == IF pc = "." THEN c /= "\n" ELSE c = pc

RegexOccursAt(s, p, i) ==
    /\ i >= 1
    /\ i + Len(p) - 1 <= Len(s)
    /\ \A k \in 1..Len(p) : RegexCharMatches(p[k], s[i + k - 1])

\* Series.str.contains(p): p is a regular expression
StrContainsRegex(s, p) == \E i \in 1..(Len(s) + 1) : RegexOccursAt(s, p, i)

\* str.lower() and Series.str.to_lowercase(), on the letters of the model
LowerChar(c) == IF c = "A" THEN "a" ELSE IF c = "C" THEN "c" ELSE c

StrToLowercase(s) == [i \in 1..Len(s) |-> LowerChar(s[i])]

Digit(d) == <<"0", "1", "2", "3", "4", "5", "6", "7", "8", "9">>[d + 1]

\* the decimal digits of a natural number
RECURSIVE Decimal(_)
Decimal(n) == IF n < 10 THEN <<Digit(n)>> ELSE Decimal(n \div 10) \o <<Digit(n % 10)>>

\* the first k decimal digits of the fraction num/den, num < den
RECURSIVE FractionDigits(_, _, _)
FractionDigits(num, den, k) ==
    IF k = 0 THEN <<>>
    ELSE <<Digit((num * 10) \div den)>> \o FractionDigits((num * 10) % den, den, k - 1)

CommaSpace == <<",", " ">>

Space == <<" ">>

Dot == <<".">>

CaptPattern == <<",", " ", "C", "a", "p", "t", ".">>

-----------------------------------------------------------------------------
(* The table *)

Columns == <<"PassengerId", "Pclass", "Name", "Age", "Fare">>

Row(id, name, age, fare) ==
    [PassengerId |-> id, Pclass |-> Some(1), Name |-> name, Age |-> age,
     Fare |-> fare]

Table(rows) == [columns |-> Columns, rows |-> rows]

Range(f) == {f[i] : i \in DOMAIN f}

Idle == [pc |-> "idle"]

-----------------------------------------------------------------------------
(* analyze_passenger_names *)

\* df['Name'].str.split(", ").list.reverse().list.join(" ").str.split(".").list.get(0)
ExtractTitle(cell) ==
    IF IsNull(cell) THEN None
    ELSE Some(ListGetFirst(StrSplit(
             ListJoin(ListReverse(StrSplit(Val(cell), CommaSpace)), Space), Dot)))

TitleSeries(rows) == [i \in 1..Len(rows) |-> ExtractTitle(rows[i].Name)]

\* Series.value_counts(): one count per distinct value, nulls included
ValueCounts(series) ==
    [t \in Range(series) |-> Cardinality({i \in DOMAIN series : series[i] = t})]

\* .sort("count", descending=True).head(n): the order among equal counts is
\* not fixed by value_counts, so every order is a possible result
SortedHeads(counts, n) ==
    LET keys == DOMAIN counts
        m == IF Cardinality(keys) < n THEN Cardinality(keys) ELSE n
    IN  {h \in [1..m -> keys] :
            /\ \A i, j \in 1..m : i < j => h[i] /= h[j] /\ counts[h[i]] >= counts[h[j]]
            /\ \A k \in keys \ Range(h) : \A i \in 1..m : counts[h[i]] >= counts[k]}

TopTitles == 10

\* pl.col("Name").str.contains(", Capt.")
IsCaptain(row) ==
    /\ ~IsNull(row.Name)
    /\ StrContainsRegex(Val(row.Name), CaptPattern)

CaptainInfo(row) == [Name |-> row.Name, Age |-> row.Age, Pclass |-> row.Pclass]

NoCaptainMessage == "No captain found in the dataset"

AnalyzePassengerNames ==
    /\ names.pc = "start"
    /\ LET titles == ValueCounts(TitleSeries(df.rows))
           captain == SelectSeq(df.rows, IsCaptain)
       IN  \E head \in SortedHeads(titles, TopTitles) :
              names' = [pc |-> "done",
                        series |-> TitleSeries(df.rows),
                        titles |-> titles,
                        head |-> head,
                        captain_info |->
                            IF Len(captain) > 0
                            THEN [i \in 1..Len(captain) |-> CaptainInfo(captain[i])]
                            ELSE <<>>,
                        written |->
                            IF Len(captain) > 0
                            THEN "**Titanic Captain Information:**"
                            ELSE NoCaptainMessage]
    /\ UNCHANGED <<df, app, overview, scatter>>

NameAlphabet == {",", " ", ".", "a"}

Txt(s) == Some(s)

SampleNames ==
    {None,
     Txt(<<"a", ",", " ", "C", "a", "p", "t", ".", " ", "a">>),
     Txt(<<"a", ",", " ", "C", "a", "p", "t", "a", "i", "n">>),
     Txt(<<",", " ", "C", "a", "p", "t">>),
     Txt(<<"C", "a", "p", "t", ".">>),
     Txt(<<"a", ",", " ", "a", ".", " ", "a">>)}

NamesRows ==
    {Row(Some(1), n, Some(40 * Unit), Some(7 * Unit)) : n \in SampleNames}

NamesTables ==
    {Table(<<Row(Some(1), Txt(n), None, None)>>) :
         n \in SeqsUpTo(NameAlphabet, MaxNameLen)}
    \cup {Table(rows) : rows \in SeqsUpTo(NamesRows, MaxRows)}

InitNames ==
    /\ df \in NamesTables
    /\ names = [pc |-> "start"]
    /\ app = Idle
    /\ overview = Idle
    /\ scatter = Idle

NextNames == AnalyzePassengerNames

SpecNames == InitNames /\ [][NextNames]_vars

-----------------------------------------------------------------------------
(* Claims about the title extraction *)

NamesDone == names.pc = "done"

NamedRows == {i \in 1..Len(df.rows) : ~IsNull(df.rows[i].Name)}

NameOf(i) == Val(df.rows[i].Name)

\* the text before the first "." of s, all of s when it holds none
PreDot(s) ==
    LET i == FirstIndex(s, Dot)
    IN  IF i = 0 THEN s ELSE SubSeq(s, 1, i - 1)

\* the readings of s as X ", " Y "." and then either nothing or " " Z
Readings(s) ==
    {r \in (1..Len(s)) \X (1..Len(s)) :
        /\ OccursAt(s, CommaSpace, r[1])
        /\ r[2] >= r[1] + 2
        /\ s[r[2]] = "."
        /\ r[2] = Len(s) \/ s[r[2] + 1] = " "}

PartY(s, r) == SubSeq(s, r[1] + 2, r[2] - 1)

PartZ(s, r) == SubSeq(s, r[2] + 2, Len(s))

\* C5 as stated: for every name of the form "X, Y. Z" the extracted title
\* is Y exactly when Z is empty and Y holds no "."
C5_TitleIsYOnlyWhenZEmpty ==
    NamesDone =>
        \A i \in NamedRows : \A r \in Readings(NameOf(i)) :
            (names.series[i] = Some(PartY(NameOf(i), r)))
                <=> (/\ PartZ(NameOf(i), r) = <<>>
                     /\ ~StrContainsLiteral(PartY(NameOf(i), r), Dot))

\* C5 as amended: for every name of the form "X, Y. Z" whose Z holds no
\* ", ", the extracted title is Y exactly when Y holds neither "." nor ", ";
\* Z may be empty or not
C5_TitleIsYWhenYIsPlain ==
    NamesDone =>
        \A i \in NamedRows : \A r \in Readings(NameOf(i)) :
            ~StrContainsLiteral(PartZ(NameOf(i), r), CommaSpace) =>
                ((names.series[i] = Some(PartY(NameOf(i), r)))
                    <=> (/\ ~StrContainsLiteral(PartY(NameOf(i), r), Dot)
                         /\ ~StrContainsLiteral(PartY(NameOf(i), r), CommaSpace)))

\* a name "X, Y. Z" with a plain, non-empty Y and a non-empty Z has been
\* analysed and its title is Y
C5_Witness ==
    /\ NamesDone
    /\ \E i \in NamedRows : \E r \in Readings(NameOf(i)) :
          /\ PartY(NameOf(i), r) /= <<>>
          /\ PartZ(NameOf(i), r) /= <<>>
          /\ ~StrContainsLiteral(PartZ(NameOf(i), r), CommaSpace)
          /\ names.series[i] = Some(PartY(NameOf(i), r))

Cuts(s) == {i \in 1..Len(s) : OccursAt(s, CommaSpace, i)}

\* the title the claim describes: one cut, at the first ", "
TitleByFirstCut(s) ==
    LET c == FirstIndex(s, CommaSpace)
    IN  IF c = 0 THEN PreDot(s)
        ELSE PreDot(SubSeq(s, c + 2, Len(s)) \o Space \o SubSeq(s, 1, c - 1))

\* the pieces of s between the cuts, last piece first, joined by spaces
RECURSIVE PiecesLastFirst(_, _)
PiecesLastFirst(s, cuts) ==
    IF cuts = {} THEN s
    ELSE LET c == CHOOSE i \in cuts : \A j \in cuts : j <= i
         IN  SubSeq(s, c + 2, Len(s)) \o Space
                 \o PiecesLastFirst(SubSeq(s, 1, c - 1), cuts \ {c})

\* C6 as stated: the extracted title of every name is the text before the
\* first "." of remainder + " " + surname, the name being cut at its first
\* ", " only (a name without ", " is taken whole)
C6_TitleCutsAtFirstCommaOnly ==
    NamesDone =>
        \A i \in NamedRows : names.series[i] = Some(TitleByFirstCut(NameOf(i)))

\* C6 as amended: the name is cut at every ", "; the extracted title is the
\* text before the first "." of the pieces joined by spaces in reverse
\* order, which for a name with at most one ", " is remainder + " " + surname
C6_TitleCutsAtEveryComma ==
    NamesDone =>
        \A i \in NamedRows :
            /\ names.series[i] =
                   Some(PreDot(PiecesLastFirst(NameOf(i), Cuts(NameOf(i)))))
            /\ Cardinality(Cuts(NameOf(i))) <= 1 =>
                   names.series[i] = Some(TitleByFirstCut(NameOf(i)))

\* a name with two ", " has been analysed and its title is not the one a
\* single cut gives
C6_Witness ==
    /\ NamesDone
    /\ \E i \in NamedRows :
          /\ Cardinality(Cuts(NameOf(i))) >= 2
          /\ names.series[i] /= Some(TitleByFirstCut(NameOf(i)))

\* a name without ", " and without "." has been analysed: its title is the
\* whole name
C6_WitnessWhole ==
    /\ NamesDone
    /\ \E i \in NamedRows :
          /\ Cuts(NameOf(i)) = {}
          /\ ~StrContainsLiteral(NameOf(i), Dot)
          /\ NameOf(i) /= <<>>
          /\ names.series[i] = Some(NameOf(i))

CaptLiteral == <<",", " ", "C", "a", "p", "t", ".">>

HoldsCaptLiteral(row) ==
    ~IsNull(row.Name) /\ StrContainsLiteral(Val(row.Name), CaptLiteral)

\* C7 as stated: the rows reported as captain are exactly the rows whose
\* Name holds the seven characters ", Capt." literally, and the message
\* "No captain found in the dataset" is written exactly when there is none
C7_CaptainIsLiteralMatch ==
    NamesDone =>
        /\ names.captain_info =
               [i \in 1..Len(SelectSeq(df.rows, HoldsCaptLiteral)) |->
                   CaptainInfo(SelectSeq(df.rows, HoldsCaptLiteral)[i])]
        /\ (names.written = NoCaptainMessage)
               <=> (SelectSeq(df.rows, HoldsCaptLiteral) = <<>>)

-----------------------------------------------------------------------------
(* display_basic_info *)

Dtype(col) ==
    IF col = "Name" THEN "Utf8"
    ELSE IF col \in {"Age", "Fare"} THEN "Float64" ELSE "Int64"

\* the text of a float that counts 1/Unit: "22.0", "18.5"
FloatText(v) ==
    Decimal(v \div Unit) \o Dot \o
        (IF v % Unit = 0 THEN <<"0">> ELSE FractionDigits(v % Unit, Unit, 1))

\* pl.col(c).cast(pl.Utf8): a null stays a null
CastUtf8(col, cell) ==
    IF IsNull(cell) THEN None
    ELSE IF Dtype(col) = "Utf8" THEN cell
    ELSE IF Dtype(col) = "Int64" THEN Some(Decimal(Val(cell)))
    ELSE Some(FloatText(Val(cell)))

\* faulty variant: the query is read as a regular expression (literal=True left out)
FilterPredicateRegex(row, col, value, case_sensitive) ==
    LET text == CastUtf8(col, row[col])
    IN  /\ ~IsNull(text)
        /\ IF case_sensitive
           THEN StrContainsRegex(Val(text), value)
           ELSE StrContainsRegex(StrToLowercase(Val(text)), StrToLowercase(value))

\* the predicate of the substring filter; a null text gives a null, which
\* filter() drops
FilterPredicate(row, col, value, case_sensitive) ==
    LET text == CastUtf8(col, row[col])
    IN  /\ ~IsNull(text)
        /\ IF case_sensitive
           THEN StrContainsLiteral(Val(text), value)
           ELSE StrContainsLiteral(StrToLowercase(Val(text)), StrToLowercase(value))

NoColumn == "None"

\* faulty variant: the guard does not look at the query
FilterIsActiveAnyValue(col, value, columns) ==
    col /= NoColumn /\ col \in Range(columns)

\* if filter_column and filter_value and filter_column in df.columns
FilterIsActive(col, value, columns) ==
    col /= NoColumn /\ value /= <<>> /\ col \in Range(columns)

\* faulty variant: the mask of the filter is applied one row late
SubstringFilterShifted(rows, col, value, case_sensitive) ==
    LET Keep(row) == FilterPredicate(row, col, value, case_sensitive)
        kept == {i \in 2..Len(rows) : Keep(rows[i - 1])}
        Nth(k) == CHOOSE i \in kept : Cardinality({j \in kept : j < i}) = k - 1
    IN  [k \in 1..Cardinality(kept) |-> rows[Nth(k)]]

\* df.lazy().filter(predicate).collect(): the rows for which the predicate
\* is true, in the order of the table
SubstringFilter(rows, col, value, case_sensitive) ==
    LET Keep(row) == FilterPredicate(row, col, value, case_sensitive)
    IN  SelectSeq(rows, Keep)

\* f"{seconds:.6f}" of a time given in nanoseconds
FormatSeconds(ns) ==
    LET micros == (ns + 500) \div 1000
        frac == Decimal(micros % 1000000)
    IN  Decimal(micros \div 1000000) \o Dot
            \o [i \in 1..(6 - Len(frac)) |-> "0"] \o frac

\* what perf_counter() may measure around collect(), in nanoseconds
ElapsedNanos == {300, 1250000}

\* the body of display_basic_info after the widgets have their values
RenderOverview(col, value, case_sensitive) ==
    IF FilterIsActive(col, value, df.columns)
    THEN \E ns \in ElapsedNanos :
            overview' = [pc |-> "shown",
                         filter_column |-> col,
                         filter_value |-> value,
                         case_sensitive |-> case_sensitive,
                         filter_time |-> FormatSeconds(ns),
                         filtered_rows |-> Some(Len(
                             SubstringFilter(df.rows, col, value, case_sensitive))),
                         shown_df |->
                             SubstringFilter(df.rows, col, value, case_sensitive)]
    ELSE overview' = [pc |-> "shown",
                      filter_column |-> col,
                      filter_value |-> value,
                      case_sensitive |-> case_sensitive,
                      filter_time |-> FormatSeconds(0),
                      filtered_rows |-> None,
                      shown_df |-> df.rows]

\* st.selectbox(options=_cols, index=_default_idx) before any choice
DefaultFilterColumn ==
    IF df.columns = <<>> THEN NoColumn
    ELSE IF "Name" \in Range(df.columns) THEN "Name" ELSE df.columns[1]

\* the first run of the script: every widget has its default
DisplayBasicInfo ==
    /\ overview.pc = "start"
    /\ RenderOverview(DefaultFilterColumn, <<>>, FALSE)
    /\ UNCHANGED <<df, app, names, scatter>>

QueryValues ==
    {<<>>, <<"a">>, <<"A">>, <<".">>, <<"1">>, <<"2", ".">>, <<"A", ".">>}

\* the user picks a filter column; the script runs again
SelectFilterColumn ==
    /\ overview.pc = "shown"
    /\ \E col \in Range(df.columns) :
          /\ col /= overview.filter_column
          /\ RenderOverview(col, overview.filter_value, overview.case_sensitive)
    /\ UNCHANGED <<df, app, names, scatter>>

\* the user types a filter value; the script runs again
EnterFilterValue ==
    /\ overview.pc = "shown"
    /\ \E value \in QueryValues :
          /\ value /= overview.filter_value
          /\ RenderOverview(overview.filter_column, value, overview.case_sensitive)
    /\ UNCHANGED <<df, app, names, scatter>>

\* the user ticks or unticks "Case sensitive match"; the script runs again
ToggleCaseSensitive ==
    /\ overview.pc = "shown"
    /\ RenderOverview(overview.filter_column, overview.filter_value,
                      ~overview.case_sensitive)
    /\ UNCHANGED <<df, app, names, scatter>>

OverviewNames ==
    {None, Txt(<<"A", "a">>), Txt(<<"a", ".">>), Txt(<<"1">>)}

OverviewRows ==
    {Row(Some(1), n, None, None) : n \in OverviewNames}
        \cup {Row(Some(12), None, Some(22 * Unit), None),
              Row(Some(21), Txt(<<"A", "a">>), Some(22 * Unit), None)}

\* a table without columns has no rows, and its selectbox returns None
EmptyTable == [columns |-> <<>>, rows |-> <<>>]

InitOverview ==
    /\ df \in {Table(rows) : rows \in SeqsUpTo(OverviewRows, MaxRows)} \cup {EmptyTable}
    /\ overview = [pc |-> "start"]
    /\ app = Idle
    /\ names = Idle
    /\ scatter = Idle

NextOverview ==
    \/ DisplayBasicInfo
    \/ SelectFilterColumn
    \/ EnterFilterValue
    \/ ToggleCaseSensitive

SpecOverview == InitOverview /\ [][NextOverview]_vars

-----------------------------------------------------------------------------
(* Claims about the substring filter *)

OverviewShown == overview.pc = "shown"

QueryGiven ==
    /\ overview.filter_column \in Range(df.columns)
    /\ overview.filter_value /= <<>>

Fold(c, case_sensitive) == IF case_sensitive THEN c ELSE LowerChar(c)

\* the text of the row's cell holds the query, character by character
HoldsQuery(row) ==
    LET cell == CastUtf8(overview.filter_column, row[overview.filter_column])
        q == overview.filter_value
        cs == overview.case_sensitive
    IN  /\ ~IsNull(cell)
        /\ \E k \in 0..(Len(Val(cell)) - Len(q)) :
              \A j \in 1..Len(q) : Fold(Val(cell)[k + j], cs) = Fold(q[j], cs)

\* C2: with an existing column and a non-empty query, the rows shown are
\* exactly the rows whose cell, as text, holds the query literally (folded
\* to lower case on both sides when the match is not case sensitive), in the
\* order of the table, and their number is what "Filtered rows" reports
C2_ShownRowsAreLiteralMatches ==
    (OverviewShown /\ QueryGiven) =>
        /\ overview.shown_df = SelectSeq(df.rows, HoldsQuery)
        /\ overview.filtered_rows = Some(Len(SelectSeq(df.rows, HoldsQuery)))

\* a query with a capital letter and a "." has been applied without case
\* sensitivity: a row matched it through folding and another row was dropped
C2_Witness ==
    /\ OverviewShown
    /\ QueryGiven
    /\ ~overview.case_sensitive
    /\ overview.filter_value = <<"A", ".">>
    /\ overview.filter_column = "Name"
    /\ Len(overview.shown_df) >= 1
    /\ Len(overview.shown_df) < Len(df.rows)
    /\ \E i \in 1..Len(overview.shown_df) :
          overview.shown_df[i].Name = Txt(<<"a", ".">>)

FilterIdle ==
    \/ overview.filter_value = <<>>
    \/ overview.filter_column = NoColumn
    \/ overview.filter_column \notin Range(df.columns)

ZeroSeconds == <<"0", ".", "0", "0", "0", "0", "0", "0">>

\* C3: with an empty query, or no column, or a column the table lacks, the
\* whole table is shown, nulls included, no "Filtered rows" line is written
\* and the filter time reads 0.000000, whatever the case-sensitivity flag
C3_IdleShowsWholeTable ==
    (OverviewShown /\ FilterIdle) =>
        /\ overview.shown_df = df.rows
        /\ overview.filter_time = ZeroSeconds
        /\ overview.filtered_rows = None

\* the query is empty, the flag is set, and the table shown has a row whose
\* cell in the chosen column is a null
C3_Witness ==
    /\ OverviewShown
    /\ overview.filter_value = <<>>
    /\ overview.case_sensitive
    /\ overview.filter_column \in Range(df.columns)
    /\ \E i \in 1..Len(overview.shown_df) :
          IsNull(overview.shown_df[i][overview.filter_column])

\* C4: without case sensitivity and with a non-empty query, filtering the
\* rows shown by the same column and query gives the rows shown again
C4_FilterIsIdempotent ==
    (OverviewShown /\ QueryGiven /\ ~overview.case_sensitive) =>
        SubstringFilter(overview.shown_df, overview.filter_column,
                        overview.filter_value, FALSE) = overview.shown_df

\* a case-insensitive query has kept some rows of the table and dropped
\* others
C4_Witness ==
    /\ OverviewShown
    /\ QueryGiven
    /\ ~overview.case_sensitive
    /\ Len(overview.shown_df) >= 1
    /\ Len(overview.shown_df) < Len(df.rows)
    /\ overview.shown_df[1] /= df.rows[1]

-----------------------------------------------------------------------------
(* create_scatter_plots *)

DefaultAgeLower == 18

FareCap == 300

SliderStep == 1

Min(a, b) == IF a <= b THEN a ELSE b

Max(a, b) == IF a >= b THEN a ELSE b

SetMin(S) == CHOOSE x \in S : \A y \in S : x <= y

SetMax(S) == CHOOSE x \in S : \A y \in S : x >= y

\* int(x) of a float counting 1/Unit: the fraction is cut off, toward zero
IntTrunc(v) ==
    IF v >= 0 THEN (v \div Unit) * Unit ELSE 0 - (((0 - v) \div Unit) * Unit)

\* df[col].drop_nulls(), as the set of its values
DropNulls(rows, col) == {Val(rows[i][col]) : i \in {j \in 1..Len(rows) : ~IsNull(rows[j][col])}}

MinAge(rows) ==
    IF DropNulls(rows, "Age") /= {} THEN IntTrunc(SetMin(DropNulls(rows, "Age"))) ELSE 0

MaxAge(rows) ==
    IF DropNulls(rows, "Age") /= {} THEN IntTrunc(SetMax(DropNulls(rows, "Age"))) ELSE 0

MinFare(rows) ==
    IF DropNulls(rows, "Fare") /= {} THEN SetMin(DropNulls(rows, "Fare")) ELSE 0

MaxFare(rows) ==
    IF DropNulls(rows, "Fare") /= {} THEN SetMax(DropNulls(rows, "Fare")) ELSE 0

\* the arguments of the two st.slider calls
AgeSliderArgs(rows) ==
    [min_value |-> MinAge(rows),
     max_value |-> MaxAge(rows),
     value |-> <<Max(MinAge(rows), DefaultAgeLower * Unit), MaxAge(rows)>>,
     step |-> SliderStep * Unit]

FareSliderArgs(rows) ==
    [min_value |-> MinFare(rows),
     max_value |-> Min(MaxFare(rows), FareCap * Unit),
     value |-> <<MinFare(rows), Min(MaxFare(rows), FareCap * Unit)>>,
     step |-> SliderStep * Unit]

ArgsInOrder(args) ==
    /\ args.min_value <= args.value[1]
    /\ args.value[1] <= args.value[2]
    /\ args.value[2] <= args.max_value

\* st.slider given a default outside its bounds, when it does not raise:
\* a reversed pair is swapped and the bounds are widened to hold it
AdjustedSlider(args) ==
    LET lo == Min(args.min_value, args.max_value)
        hi == Max(lo, args.max_value)
        start == Min(args.value[1], args.value[2])
        end == Max(args.value[1], args.value[2])
    IN  [min_value |-> Min(start, lo), max_value |-> Max(end, hi),
         value |-> <<start, end>>, step |-> args.step]

\* the selections a slider offers: both ends on the steps counted from
\* min_value, or at max_value
SliderStops(w) ==
    {w.min_value + k * w.step : k \in 0..((w.max_value - w.min_value) \div w.step)}
        \cup {w.max_value}

\* the selections one drag of a handle leads to from the selection r
SliderMoves(w, r) ==
    {<<v, r[2]>> : v \in {x \in SliderStops(w) : x <= r[2]}}
        \cup {<<r[1], v>> : v \in {x \in SliderStops(w) : x >= r[1]}}

Ge(cell, x) == IF IsNull(cell) THEN "null" ELSE IF Val(cell) >= x THEN "true" ELSE "false"

\* faulty variant: the upper end of a range is exclusive
LeStrict(cell, x) == IF IsNull(cell) THEN "null" ELSE IF Val(cell) < x THEN "true" ELSE "false"

Le(cell, x) == IF IsNull(cell) THEN "null" ELSE IF Val(cell) <= x THEN "true" ELSE "false"

\* a & b on expressions that may be null
And3(a, b) ==
    IF a = "false" \/ b = "false" THEN "false"
    ELSE IF a = "null" \/ b = "null" THEN "null" ELSE "true"

\* (Age >= a) & (Age <= b) & (Fare >= c) & (Fare <= d)
RangePredicate(row, age_range, fare_range) ==
    And3(And3(And3(Ge(row.Age, age_range[1]), Le(row.Age, age_range[2])),
              Ge(row.Fare, fare_range[1])),
         Le(row.Fare, fare_range[2]))

RangeFilter(rows, age_range, fare_range) ==
    LET Keep(row) == RangePredicate(row, age_range, fare_range) = "true"
    IN  SelectSeq(rows, Keep)

\* the body of create_scatter_plots once both sliders have returned
RenderScatter(age_slider, age_range, fare_slider, fare_range) ==
    scatter' = [pc |-> "shown",
                age_args |-> AgeSliderArgs(df.rows),
                fare_args |-> Some(FareSliderArgs(df.rows)),
                age_slider |-> age_slider,
                age_range |-> age_range,
                fare_slider |-> fare_slider,
                fare_range |-> fare_range,
                filtered_passengers |-> RangeFilter(df.rows, age_range, fare_range),
                written |-> Len(RangeFilter(df.rows, age_range, fare_range))]

\* the first run: both sliders take their defaults
CreateScatterPlots ==
    /\ scatter.pc = "start"
    /\ ArgsInOrder(AgeSliderArgs(df.rows))
    /\ ArgsInOrder(FareSliderArgs(df.rows))
    /\ RenderScatter(AgeSliderArgs(df.rows), AgeSliderArgs(df.rows).value,
                     FareSliderArgs(df.rows), FareSliderArgs(df.rows).value)
    /\ UNCHANGED <<df, app, overview, names>>

\* the first run with a default outside the bounds of its slider, where
\* st.slider widens the bounds
CreateScatterPlotsAdjusted ==
    /\ scatter.pc = "start"
    /\ ~ArgsInOrder(AgeSliderArgs(df.rows)) \/ ~ArgsInOrder(FareSliderArgs(df.rows))
    /\ RenderScatter(AdjustedSlider(AgeSliderArgs(df.rows)),
                     AdjustedSlider(AgeSliderArgs(df.rows)).value,
                     AdjustedSlider(FareSliderArgs(df.rows)),
                     AdjustedSlider(FareSliderArgs(df.rows)).value)
    /\ UNCHANGED <<df, app, overview, names>>

\* the first run with a default outside the bounds of its slider, where
\* st.slider raises: nothing after the call is run
CreateScatterPlotsRaises ==
    /\ scatter.pc = "start"
    /\ ~ArgsInOrder(AgeSliderArgs(df.rows)) \/ ~ArgsInOrder(FareSliderArgs(df.rows))
    /\ scatter' = [pc |-> "error",
                   age_args |-> AgeSliderArgs(df.rows),
                   fare_args |->
                       IF ArgsInOrder(AgeSliderArgs(df.rows))
                       THEN Some(FareSliderArgs(df.rows)) ELSE None]
    /\ UNCHANGED <<df, app, overview, names>>

\* the user moves the age slider; the script runs again
MoveAgeSlider ==
    /\ scatter.pc = "shown"
    /\ \E r \in SliderMoves(scatter.age_slider, scatter.age_range) :
          /\ r /= scatter.age_range
          /\ RenderScatter(scatter.age_slider, r, scatter.fare_slider,
                           scatter.fare_range)
    /\ UNCHANGED <<df, app, overview, names>>

\* the user moves the fare slider; the script runs again
MoveFareSlider ==
    /\ scatter.pc = "shown"
    /\ \E r \in SliderMoves(scatter.fare_slider, scatter.fare_range) :
          /\ r /= scatter.fare_range
          /\ RenderScatter(scatter.age_slider, scatter.age_range,
                           scatter.fare_slider, r)
    /\ UNCHANGED <<df, app, overview, names>>

AgeCells ==
    {None, Some(17 * Unit), Some(18 * Unit + 1), Some(19 * Unit + 1)}

FareCells ==
    {None, Some(299 * Unit), Some(300 * Unit + 1), Some(301 * Unit)}

ScatterRows ==
    {Row(Some(1), None, age, Some(299 * Unit)) : age \in AgeCells}
        \cup {Row(Some(1), None, Some(18 * Unit + 1), fare) : fare \in FareCells}
        \cup {Row(Some(1), None, Some(19 * Unit + 1), Some(301 * Unit))}

InitScatter ==
    /\ df \in {Table(rows) : rows \in SeqsUpTo(ScatterRows, MaxRows)}
    /\ scatter = [pc |-> "start"]
    /\ app = Idle
    /\ overview = Idle
    /\ names = Idle

NextScatter ==
    \/ CreateScatterPlots
    \/ CreateScatterPlotsAdjusted
    \/ CreateScatterPlotsRaises
    \/ MoveAgeSlider
    \/ MoveFareSlider

SpecScatter == InitScatter /\ [][NextScatter]_vars

-----------------------------------------------------------------------------
(* Claims about the sliders and the range filter *)

ScatterShown == scatter.pc = "shown"

BothPresent(row) == ~IsNull(row.Age) /\ ~IsNull(row.Fare)

\* Age and Fare are both present and inside the selected ranges, ends included
InsideRanges(row) ==
    /\ ~IsNull(row.Age)
    /\ ~IsNull(row.Fare)
    /\ scatter.age_range[1] <= Val(row.Age)
    /\ Val(row.Age) <= scatter.age_range[2]
    /\ scatter.fare_range[1] <= Val(row.Fare)
    /\ Val(row.Fare) <= scatter.fare_range[2]

\* C1: for every table and every selection of the two sliders, the rows of
\* the filtered result are exactly the rows whose Age and Fare are both
\* present and lie inside the selected ranges, both ends included, and the
\* count written is their number
C1_RangeFilterIsExact ==
    ScatterShown =>
        /\ scatter.filtered_passengers = SelectSeq(df.rows, InsideRanges)
        /\ scatter.written = Len(SelectSeq(df.rows, InsideRanges))

\* a selection has kept a row whose Age is the lower end of the age range
\* and whose Fare is the upper end of the fare range, and has dropped a row
\* whose Age is above the range
C1_Witness ==
    /\ ScatterShown
    /\ Len(scatter.filtered_passengers) = 1
    /\ Val(scatter.filtered_passengers[1].Age) = scatter.age_range[1]
    /\ Val(scatter.filtered_passengers[1].Fare) = scatter.fare_range[2]
    /\ scatter.age_range[1] < scatter.age_range[2]
    /\ ArgsInOrder(scatter.age_args)
    /\ \E i \in 1..Len(df.rows) :
          BothPresent(df.rows[i]) /\ Val(df.rows[i].Age) > scatter.age_range[2]

\* C9 as stated: for every dataset the default selection passed to each
\* slider lies inside the bounds passed with it:
\* min_value <= lower <= upper <= max_value
C9_DefaultsInsideBounds ==
    scatter.pc \in {"shown", "error"} =>
        /\ ArgsInOrder(scatter.age_args)
        /\ ~IsNull(scatter.fare_args) => ArgsInOrder(Val(scatter.fare_args))

FullExtent ==
    /\ scatter.age_range = <<scatter.age_slider.min_value, scatter.age_slider.max_value>>
    /\ scatter.fare_range =
           <<scatter.fare_slider.min_value, scatter.fare_slider.max_value>>

\* C10 as stated: with both sliders at their full extent the filtered result
\* holds every row whose Age and Fare are both present
C10_FullExtentKeepsEveryRow ==
    (ScatterShown /\ FullExtent) =>
        scatter.filtered_passengers = SelectSeq(df.rows, BothPresent)

-----------------------------------------------------------------------------
(* main *)

Options ==
    <<"Dataset Overview", "Passenger Sex Analysis", "Passenger Class Analysis",
      "Embarkation Port Analysis", "Passenger Name Analysis",
      "Age vs Fare Analysis", "Survival Analysis">>

AllAnalyses == "All Analyses"

NoSelection == "None"

Renderers ==
    <<"display_basic_info", "analyze_passenger_sex", "analyze_passenger_classes",
      "analyze_embarkation_ports", "analyze_passenger_names",
      "create_scatter_plots", "analyze_survival_by_sex_and_class">>

\* faulty variant: the k-th test forgets "All Analyses"
IsSelectedNamedOnly(k, analysis_type) == analysis_type = Options[k]

\* the test of the k-th if of main
IsSelected(k, analysis_type) ==
    analysis_type = Options[k] \/ analysis_type = AllAnalyses

\* st.title and show_image_if_exists("img/titanic.jpg")
ShowHeader ==
    /\ app.pc = "header"
    /\ \E exists \in BOOLEAN :
          app' = [app EXCEPT !.pc = "load",
                             !.page = <<"title", IF exists THEN "image" ELSE "warning">>]
    /\ UNCHANGED <<df, overview, names, scatter>>

\* load_data() returns, from the cache or from the file
LoadData ==
    /\ app.pc = "load"
    /\ app' = [app EXCEPT !.pc = "pills", !.cached = TRUE]
    /\ UNCHANGED <<df, overview, names, scatter>>

\* load_data() raises, which only an uncached call can do: st.error, return
LoadDataRaises ==
    /\ app.pc = "load"
    /\ ~app.cached
    /\ app' = [app EXCEPT !.pc = "returned", !.page = Append(@, "error")]
    /\ UNCHANGED <<df, overview, names, scatter>>

\* st.sidebar.pills returns the selection of the session
ReadPills ==
    /\ app.pc = "pills"
    /\ app' = [app EXCEPT !.pc = "if", !.k = 1, !.analysis_type = app.selection]
    /\ UNCHANGED <<df, overview, names, scatter>>

\* the k-th if of main: the renderer is called when its test holds
Dispatch ==
    /\ app.pc = "if"
    /\ app' = [app EXCEPT
                 !.page = IF IsSelected(app.k, app.analysis_type)
                          THEN Append(@, Renderers[app.k]) ELSE @,
                 !.k = IF app.k < Len(Options) THEN app.k + 1 ELSE @,
                 !.pc = IF app.k < Len(Options) THEN "if" ELSE "footer"]
    /\ UNCHANGED <<df, overview, names, scatter>>

\* the three st.markdown calls that end main
Footer ==
    /\ app.pc = "footer"
    /\ app' = [app EXCEPT !.pc = "done", !.page = Append(@, "footer")]
    /\ UNCHANGED <<df, overview, names, scatter>>

\* the user clicks a pill (a click on the selected one clears it); the
\* script runs again from the top
ClickPill ==
    /\ app.pc = "done"
    /\ \E choice \in Range(Options) \cup {AllAnalyses} :
          app' = [app EXCEPT
                    !.pc = "header", !.page = <<>>, !.k = 0,
                    !.selection = IF choice = app.selection THEN NoSelection
                                  ELSE choice]
    /\ UNCHANGED <<df, overview, names, scatter>>

\* the user reloads the page after a failed load, or clears the cache and
\* reruns: the selection of the session is kept
Rerun ==
    /\ app.pc \in {"done", "returned"}
    /\ \E clear \in BOOLEAN :
          app' = [app EXCEPT
                    !.pc = "header", !.page = <<>>, !.k = 0,
                    !.cached = IF clear THEN FALSE ELSE @]
    /\ UNCHANGED <<df, overview, names, scatter>>

InitMain ==
    /\ app = [pc |-> "header", cached |-> FALSE, selection |-> Options[1],
              analysis_type |-> NoSelection, k |-> 0, page |-> <<>>]
    /\ df = Table(<<>>)
    /\ overview = Idle
    /\ names = Idle
    /\ scatter = Idle

NextMain ==
    \/ ShowHeader
    \/ LoadData
    \/ LoadDataRaises
    \/ ReadPills
    \/ Dispatch
    \/ Footer
    \/ ClickPill
    \/ Rerun

SpecMain == InitMain /\ [][NextMain]_vars

-----------------------------------------------------------------------------
(* Claims about main *)

Count(page, what) == Cardinality({i \in 1..Len(page) : page[i] = what})

IsRenderer(e) ==
    e \in {"display_basic_info", "analyze_passenger_sex", "analyze_passenger_classes",
           "analyze_embarkation_ports", "analyze_passenger_names",
           "create_scatter_plots", "analyze_survival_by_sex_and_class"}

Calls(page) == SelectSeq(page, IsRenderer)

RendererOf(choice) ==
    CASE choice = "Dataset Overview" -> <<"display_basic_info">>
      [] choice = "Passenger Sex Analysis" -> <<"analyze_passenger_sex">>
      [] choice = "Passenger Class Analysis" -> <<"analyze_passenger_classes">>
      [] choice = "Embarkation Port Analysis" -> <<"analyze_embarkation_ports">>
      [] choice = "Passenger Name Analysis" -> <<"analyze_passenger_names">>
      [] choice = "Age vs Fare Analysis" -> <<"create_scatter_plots">>
      [] choice = "Survival Analysis" -> <<"analyze_survival_by_sex_and_class">>
      [] choice = "All Analyses" ->
            <<"display_basic_info", "analyze_passenger_sex",
              "analyze_passenger_classes", "analyze_embarkation_ports",
              "analyze_passenger_names", "create_scatter_plots",
              "analyze_survival_by_sex_and_class">>
      [] OTHER -> <<>>

\* C8: when load_data raises, whatever the selection, the page holds exactly
\* one error message, no renderer has been called and no footer is written,
\* and main has returned; when it succeeds, a run that ends has called
\* exactly the renderer of the selection, or all seven in the order
\* overview, sex, class, port, name, age-vs-fare, survival for "All Analyses"
C8_LoadFailureStopsAndDispatchIsExact ==
    /\ Count(app.page, "error") >= 1 =>
          /\ app.pc = "returned"
          /\ Count(app.page, "error") = 1
          /\ Calls(app.page) = <<>>
          /\ Count(app.page, "footer") = 0
    /\ app.pc = "returned" => Count(app.page, "error") = 1
    /\ app.pc = "done" =>
          /\ Calls(app.page) = RendererOf(app.selection)
          /\ Count(app.page, "footer") = 1

\* the load has failed in a session whose selection is "All Analyses"
C8_Witness ==
    /\ app.pc = "returned"
    /\ app.selection = AllAnalyses
    /\ Count(app.page, "error") = 1

\* a run with "All Analyses" selected has ended with seven renderers called
C8_WitnessAll ==
    /\ app.pc = "done"
    /\ app.selection = AllAnalyses
    /\ Len(Calls(app.page)) = 7

====
